---------------------------- MODULE Spec2Model ----------------------------
(* Markdown generator (src/src/markdown/mod.rs): the node tree, the       *)
(* recursive emission protocol (write_to / count_max_streak), the         *)
(* escaping and line-prefixing helpers, and the Markdown::write entry.    *)
(* Bytes are one-character strings, byte strings are sequences of them.   *)
EXTENDS Integers, Sequences, FiniteSets, TLC

VARIABLES elem, held, md, ret, last

vars == <<elem, held, md, ret, last>>

(***************************************************************************)
(* Bounds of the model.                                                    *)
(***************************************************************************)
\* longest text drawn in the text specification
MaxLen == 4
\* most nodes (and table cells) the client holds in elem and held together
MaxNodes == 3
\* most successful write_all calls before an injected sink failure
MaxFail == 3
\* most cells in a table header or row, and most rows of a table
MaxCols == 2
MaxRows == 2
\* streak counting: longest child text, most children, greatest carry handed in
MaxPiece == 3
MaxChildren == 2
MaxCarry == 2
MaxDoc == 8

(***************************************************************************)
(* Bytes.                                                                  *)
(***************************************************************************)
NL == "\n"
\* the byte 0x60 (backtick): the lexer takes no backtick in a string literal
TICK == "BACKTICK"
STAR == "*"
BSLASH == "\\"
SPACE == " "

\* the escape set of <&str>::write_to (backslash, backtick, star, ...)
Reserved == <<BSLASH, TICK, "*", "_", "{", "}", "[", "]", "(", ")", "#", "+", "-", ".", "!">>

Range(s) == {s[i] : i \in 1..Len(s)}

\* Option<&[u8]> : None is the empty sequence, Some(p) the one-element sequence
None == <<>>
Some(p) == <<p>>
is_some(o) == Len(o) = 1
unwrap(o) == o[1]

\* enum Escaping
Normal == "Normal"
InlineCode == "InlineCode"

\* Result<(), io::Error> of a call, and a panic unwinding through it
OK == "ok"
PANIC == "panic"
IoErrors == {"BrokenPipe", "WriteZero"}

(***************************************************************************)
(* The sink (the W: Write behind the writer).  failAt is the number of     *)
(* non-empty write_all calls that succeed before one fails with failWith   *)
(* (None: the sink never fails).  raised is the error the sink itself      *)
(* raised, res the result handed back up the call chain, late the number   *)
(* of write_all calls made on the sink after it had failed.                *)
(***************************************************************************)
new_sink(failAt, failWith) ==
    [out |-> <<>>, calls |-> 0, failAt |-> failAt, failWith |-> failWith,
     raised |-> OK, res |-> OK, late |-> 0]

\* Write::write_all : an empty buffer returns Ok without touching the sink.
\* A failing call leaves out as it was (the bytes a sink may take before it
\* fails are not modelled); the errors are those write_all hands back, so
\* ErrorKind::Interrupted, which it retries, is not among IoErrors.
write_all(st, data) ==
    IF data = <<>> THEN st
    ELSE IF st.raised # OK THEN [st EXCEPT !.late = @ + 1]
    ELSE IF is_some(st.failAt) /\ unwrap(st.failAt) = st.calls
         THEN [st EXCEPT !.raised = st.failWith, !.res = st.failWith]
         ELSE [st EXCEPT !.out = @ \o data, !.calls = @ + 1]

\* data.iter().position(|x| set.contains(x)), 1-based; 0 when there is none
position(data, set) ==
    IF \E i \in 1..Len(data) : data[i] \in set
    THEN CHOOSE i \in 1..Len(data) :
            /\ data[i] \in set
            /\ \A j \in 1..(i - 1) : data[j] \notin set
    ELSE 0

RECURSIVE prefixed_loop(_, _, _)
prefixed_loop(st, data, line_prefix) ==
    LET slice_at == position(data, {NL}) IN
    IF slice_at = 0 THEN write_all(st, data)
    ELSE LET s1 == write_all(st, SubSeq(data, 1, slice_at)) IN
         IF s1.res # OK THEN s1
         ELSE LET s2 == write_all(s1, line_prefix) IN
              IF s2.res # OK THEN s2
              ELSE prefixed_loop(s2, SubSeq(data, slice_at + 1, Len(data)), line_prefix)

\* a slip: no prefix after a newline that is the last byte of the data
write_line_prefixed_not_after_last(st, data, line_prefix) ==
    IF ~is_some(line_prefix) THEN write_all(st, data)
    ELSE IF data # <<>> /\ data[Len(data)] = NL
         THEN LET s1 == prefixed_loop(st, SubSeq(data, 1, Len(data) - 1),
                                      unwrap(line_prefix)) IN
              IF s1.res # OK THEN s1 ELSE write_all(s1, <<NL>>)
         ELSE prefixed_loop(st, data, unwrap(line_prefix))

write_line_prefixed(st, data, line_prefix) ==
    IF ~is_some(line_prefix) THEN write_all(st, data)
    ELSE prefixed_loop(st, data, unwrap(line_prefix))

RECURSIVE write_escaped(_, _, _, _)
write_escaped(st, data, escape, line_prefix) ==
    LET slice_at == position(data, Range(escape)) IN
    IF slice_at = 0 THEN write_line_prefixed(st, data, line_prefix)
    ELSE LET s1 == write_line_prefixed(st, SubSeq(data, 1, slice_at - 1), line_prefix) IN
         IF s1.res # OK THEN s1
         ELSE LET s2 == write_all(s1, <<BSLASH>>) IN
              IF s2.res # OK THEN s2
              ELSE LET s3 == write_line_prefixed(s2, SubSeq(data, slice_at, slice_at),
                                                 line_prefix) IN
                   IF s3.res # OK THEN s3
                   ELSE write_escaped(s3, SubSeq(data, slice_at + 1, Len(data)),
                                      escape, line_prefix)

(***************************************************************************)
(* impl MarkdownWritable for &str                                          *)
(***************************************************************************)
\* a slip: the text is escaped whatever the escaping mode
str_write_to_always_escaped(text, st, inner, escape, line_prefix) ==
    LET s1 == write_escaped(st, text, Reserved, line_prefix) IN
    IF s1.res # OK THEN s1
    ELSE IF ~inner THEN write_line_prefixed(s1, <<NL, NL>>, line_prefix)
    ELSE s1

str_write_to(text, st, inner, escape, line_prefix) ==
    LET s1 == IF escape = Normal
              THEN write_escaped(st, text, Reserved, line_prefix)
              ELSE write_all(st, text) IN
    IF s1.res # OK THEN s1
    ELSE IF ~inner THEN write_line_prefixed(s1, <<NL, NL>>, line_prefix)
    ELSE s1

\* the loop of count_max_streak over the bytes from index i on: <<max, current>>
RECURSIVE streak_loop(_, _, _, _, _)
streak_loop(text, i, char, max, current) ==
    IF i > Len(text) THEN <<max, current>>
    ELSE IF text[i] = char THEN streak_loop(text, i + 1, char, max, current + 1)
    ELSE streak_loop(text, i + 1, char, IF current > max THEN current ELSE max, 0)

str_count_max_streak(text, char, carry) == streak_loop(text, 1, char, 0, carry)

(***************************************************************************)
(* The node tree.  A node is a record tagged by kind; children, title and  *)
(* items are sequences of nodes (Vec<Box<dyn MarkdownWritable>>).          *)
(***************************************************************************)
Str(text) == [kind |-> "str", text |-> text]

\* Paragraph::new
Paragraph_new == [kind |-> "paragraph", children |-> <<>>]

\* Heading { children, level } (Heading::new checks the level, see below)
Heading_value(level) == [kind |-> "heading", children |-> <<>>, level |-> level]

\* Table::new
Table_new(gfm) == [kind |-> "table", gfm |-> gfm, columns |-> <<>>, rows |-> << <<>> >>]

\* Link::new
Link_new(address) == [kind |-> "link", children |-> <<>>, address |-> address]

\* RichText::new
RichText_new(text) ==
    [kind |-> "richtext", bold |-> FALSE, italic |-> FALSE, code |-> FALSE, text |-> text]

\* List::new
List_new(numbered) == [kind |-> "list", title |-> <<>>, items |-> <<>>, numbered |-> numbered]

\* Quote::new
Quote_new == [kind |-> "quote", children |-> <<>>]

\* the append of Paragraph, Heading, Link and Quote
append(self, element) == [self EXCEPT !.children = Append(@, element)]

\* vec![b; n]
repeat(b, n) == [i \in 1..n |-> b]

\* Vec::reverse
reverse(s) == [i \in 1..Len(s) |-> s[Len(s) + 1 - i]]

(***************************************************************************)
(* write_to, one operator per impl.  Every call that ends in `?` is        *)
(* followed by the test of its result, so an error (or a panic unwinding)  *)
(* leaves at once.                                                         *)
(***************************************************************************)
RECURSIVE write_to(_, _, _, _, _)

\* a slip: the result of a child's write_to is dropped (no `?`)
RECURSIVE write_children_unchecked(_, _, _, _, _)
write_children_unchecked(children, i, st, escape, line_prefix) ==
    IF i > Len(children) THEN st
    ELSE write_children_unchecked(children, i + 1,
            write_to(children[i], st, TRUE, escape, line_prefix), escape, line_prefix)

\* for child in &self.children { child.write_to(writer, true, escape, line_prefix)?; }
RECURSIVE write_children(_, _, _, _, _)
write_children(children, i, st, escape, line_prefix) ==
    IF i > Len(children) THEN st
    ELSE LET s1 == write_to(children[i], st, TRUE, escape, line_prefix) IN
         IF s1.res # OK THEN s1
         ELSE write_children(children, i + 1, s1, escape, line_prefix)

Paragraph_write_to(self, st, inner, escape, line_prefix) ==
    LET s1 == write_children(self.children, 1, st, escape, line_prefix) IN
    IF s1.res # OK THEN s1
    ELSE IF ~inner THEN write_line_prefixed(s1, <<NL, NL>>, line_prefix)
    ELSE s1

\* a slip: the space after the hashes is forgotten
Heading_write_to_no_space(self, st, inner, escape, line_prefix) ==
    IF inner THEN [st EXCEPT !.res = PANIC]
    ELSE LET s1 == write_all(st, repeat("#", self.level)) IN
         IF s1.res # OK THEN s1
         ELSE LET s2 == write_children(self.children, 1, s1, Normal, line_prefix) IN
              IF s2.res # OK THEN s2
              ELSE write_line_prefixed(s2, <<NL>>, line_prefix)

Heading_write_to(self, st, inner, escape, line_prefix) ==
    IF inner THEN [st EXCEPT !.res = PANIC]
    ELSE LET s1 == write_all(st, repeat("#", self.level) \o <<SPACE>>) IN
         IF s1.res # OK THEN s1
         ELSE LET s2 == write_children(self.children, 1, s1, Normal, line_prefix) IN
              IF s2.res # OK THEN s2
              ELSE write_line_prefixed(s2, <<NL>>, line_prefix)

\* the HTML pieces of the GFM table
TH_OPEN == <<"<", "t", "h", ">">>
TH_CLOSE == <<"<", "/", "t", "h", ">">>
TD_OPEN == <<"<", "t", "d", ">">>
TD_CLOSE == <<"<", "/", "t", "d", ">">>
TR_OPEN == <<"<", "t", "r", ">">>
TR_CLOSE == <<"<", "/", "t", "r", ">">>
THEAD_OPEN == <<"<", "t", "h", "e", "a", "d", ">">>
THEAD_CLOSE == <<"<", "/", "t", "h", "e", "a", "d", ">">>
TBODY_OPEN == <<"<", "t", "b", "o", "d", "y", ">">>
TBODY_CLOSE == <<"<", "/", "t", "b", "o", "d", "y", ">">>
TABLE_OPEN == <<"<", "t", "a", "b", "l", "e", ">">>
TABLE_CLOSE == <<"<", "/", "t", "a", "b", "l", "e", ">">>

\* for (k, column) in self.columns.iter().enumerate()
RECURSIVE table_columns(_, _, _)
table_columns(columns, k, table) ==
    IF k > Len(columns) THEN table
    ELSE table_columns(columns, k + 1,
            IF k = 1
            THEN table \o THEAD_OPEN \o TR_OPEN \o TH_OPEN \o columns[k] \o TH_CLOSE
            ELSE table \o TH_OPEN \o columns[k] \o TH_CLOSE)

\* for (r, row) in rows.iter().enumerate()
RECURSIVE table_cells(_, _, _)
table_cells(cells, r, table) ==
    IF r > Len(cells) THEN table
    ELSE table_cells(cells, r + 1,
            IF r = 1
            THEN table \o TR_OPEN \o TD_OPEN \o cells[r] \o TD_CLOSE
            ELSE LET t1 == table \o TD_OPEN \o cells[r] \o TD_CLOSE IN
                 IF Len(cells) = r THEN t1 \o TR_CLOSE ELSE t1)

\* for rows in &self.rows
RECURSIVE table_rows(_, _, _)
table_rows(rows, i, table) ==
    IF i > Len(rows) THEN table
    ELSE table_rows(rows, i + 1, table_cells(rows[i], 1, table))

Table_write_to(self, st, inner, escape, line_prefix) ==
    LET s1 == IF self.gfm
              THEN write_all(st,
                     table_rows(self.rows, 1,
                        table_columns(self.columns, 1, TABLE_OPEN)
                           \o TR_CLOSE \o THEAD_CLOSE \o TBODY_OPEN)
                     \o TBODY_CLOSE \o TABLE_CLOSE)
              ELSE st IN
    IF s1.res # OK THEN s1
    ELSE write_line_prefixed(s1, <<NL>>, line_prefix)

Link_write_to(self, st, inner, escape, line_prefix) ==
    LET s1 == write_all(st, <<"[">>) IN
    IF s1.res # OK THEN s1
    ELSE LET s2 == write_children(self.children, 1, s1, escape, line_prefix) IN
    IF s2.res # OK THEN s2
    ELSE LET s3 == write_all(s2, <<"]", "(">>) IN
    IF s3.res # OK THEN s3
    ELSE LET s4 == str_write_to(self.address, s3, TRUE, escape, line_prefix) IN
    IF s4.res # OK THEN s4
    ELSE LET s5 == write_all(s4, <<")">>) IN
    IF s5.res # OK THEN s5
    ELSE IF ~inner THEN write_line_prefixed(s5, <<NL>>, line_prefix)
    ELSE s5

\* a slip: the run still open at the end of the text is forgotten
ticks_needed_no_carry(text) ==
    LET r == str_count_max_streak(text, TICK, 0) IN r[1] + 1

\* the length of the backtick fence of a code span over text
ticks_needed(text) ==
    LET r == str_count_max_streak(text, TICK, 0) IN r[1] + 1 + r[2]

\* the opening delimiter of a styled text
RichText_symbol(self) ==
    (IF self.bold THEN <<STAR, STAR>> ELSE <<>>)
    \o (IF self.italic THEN <<STAR>> ELSE <<>>)
    \o (IF self.code THEN repeat(TICK, ticks_needed(self.text)) \o <<SPACE>> ELSE <<>>)

RichText_write_to(self, st, inner, escape, line_prefix) ==
    LET symbol == RichText_symbol(self)
        esc == IF self.code THEN InlineCode ELSE escape
        s1 == write_all(st, symbol) IN
    IF s1.res # OK THEN s1
    ELSE LET s2 == str_write_to(self.text, s1, TRUE, esc, line_prefix) IN
    IF s2.res # OK THEN s2
    ELSE LET s3 == write_all(s2, reverse(symbol)) IN
    IF s3.res # OK THEN s3
    ELSE IF ~inner THEN write_line_prefixed(s3, <<NL, NL>>, line_prefix)
    ELSE s3

\* the line prefix a List or Quote hands to its children
extend_prefix(line_prefix, more) ==
    (IF is_some(line_prefix) THEN unwrap(line_prefix) ELSE <<>>) \o more

\* the marker written before each list item
list_marker(numbered) ==
    IF numbered THEN <<NL, "1", ".", SPACE>> ELSE <<NL, STAR, SPACE>>

\* for it in &self.items
RECURSIVE write_items(_, _, _, _, _, _)
write_items(items, i, st, numbered, escape, prefix) ==
    IF i > Len(items) THEN st
    ELSE LET s1 == write_line_prefixed(st, list_marker(numbered), Some(prefix)) IN
         IF s1.res # OK THEN s1
         ELSE LET s2 == write_to(items[i], s1, TRUE, escape, Some(prefix)) IN
              IF s2.res # OK THEN s2
              ELSE write_items(items, i + 1, s2, numbered, escape, prefix)

\* a slip: the items are written under the caller's prefix, not the indented one
List_write_to_unindented(self, st, inner, escape, line_prefix) ==
    LET s1 == write_children(self.title, 1, st, escape, line_prefix) IN
    IF s1.res # OK THEN s1
    ELSE write_items(self.items, 1, s1, self.numbered, escape,
                     extend_prefix(line_prefix, <<>>))

List_write_to(self, st, inner, escape, line_prefix) ==
    LET s1 == write_children(self.title, 1, st, escape, line_prefix) IN
    IF s1.res # OK THEN s1
    ELSE write_items(self.items, 1, s1, self.numbered, escape,
                     extend_prefix(line_prefix, <<SPACE, SPACE, SPACE>>))

Quote_write_to(self, st, inner, escape, line_prefix) ==
    LET prefix == extend_prefix(line_prefix, <<">">>)
        s1 == IF ~inner THEN write_line_prefixed(st, <<NL>>, line_prefix) ELSE st IN
    IF s1.res # OK THEN s1
    ELSE LET s2 == write_all(s1, <<">">>) IN
    IF s2.res # OK THEN s2
    ELSE LET s3 == write_children(self.children, 1, s2, escape, Some(prefix)) IN
    IF s3.res # OK THEN s3
    ELSE IF ~inner THEN write_line_prefixed(s3, <<NL, NL>>, line_prefix)
    ELSE s3

\* the dynamic dispatch of MarkdownWritable::write_to
write_to(node, st, inner, escape, line_prefix) ==
    CASE node.kind = "str" -> str_write_to(node.text, st, inner, escape, line_prefix)
      [] node.kind = "paragraph" -> Paragraph_write_to(node, st, inner, escape, line_prefix)
      [] node.kind = "heading" -> Heading_write_to(node, st, inner, escape, line_prefix)
      [] node.kind = "table" -> Table_write_to(node, st, inner, escape, line_prefix)
      [] node.kind = "link" -> Link_write_to(node, st, inner, escape, line_prefix)
      [] node.kind = "richtext" -> RichText_write_to(node, st, inner, escape, line_prefix)
      [] node.kind = "list" -> List_write_to(node, st, inner, escape, line_prefix)
      [] node.kind = "quote" -> Quote_write_to(node, st, inner, escape, line_prefix)

(***************************************************************************)
(* count_max_streak, one operator per impl: <<count, carry>>.              *)
(***************************************************************************)
RECURSIVE count_max_streak(_, _, _)

\* for child in &self.children { let (c, cr) = child.count_max_streak(char, carry);
\*                               count += c; carry = cr; }
RECURSIVE sum_children_streaks(_, _, _, _, _)
sum_children_streaks(children, i, char, carry, count) ==
    IF i > Len(children) THEN <<count, carry>>
    ELSE LET r == count_max_streak(children[i], char, carry) IN
         sum_children_streaks(children, i + 1, char, r[2], count + r[1])

\* for child in .. { let (c, _) = child.count_max_streak(char, 0);
\*                   if c > count { count = c; } }
RECURSIVE greatest_child_streak(_, _, _, _)
greatest_child_streak(children, i, char, count) ==
    IF i > Len(children) THEN count
    ELSE LET r == count_max_streak(children[i], char, 0) IN
         greatest_child_streak(children, i + 1, char,
                               IF r[1] > count THEN r[1] ELSE count)

Paragraph_count_max_streak(self, char, carry) ==
    LET r == sum_children_streaks(self.children, 1, char, carry, 0) IN
    <<r[1] + r[2], 0>>

Heading_count_max_streak(self, char, carry) ==
    sum_children_streaks(self.children, 1, char, 0, 0)

Table_count_max_streak(self, char, carry) == <<0, 0>>

Link_count_max_streak(self, char, carry) ==
    LET a == str_count_max_streak(self.address, char, 0)
        addr == a[1] + a[2]
        r == sum_children_streaks(self.children, 1, char, 0, 0)
        count == r[1] + r[2] IN
    IF count > addr THEN <<count, 0>> ELSE <<addr, 0>>

RichText_count_max_streak(self, char, carry) ==
    LET r == str_count_max_streak(self.text, char, 0) IN <<r[1] + r[2], 0>>

List_count_max_streak(self, char, carry) ==
    <<greatest_child_streak(self.items, 1, char, 0), 0>>

Quote_count_max_streak(self, char, carry) ==
    <<greatest_child_streak(self.children, 1, char, 0), 0>>

\* the dynamic dispatch of MarkdownWritable::count_max_streak
count_max_streak(node, char, carry) ==
    CASE node.kind = "str" -> str_count_max_streak(node.text, char, carry)
      [] node.kind = "paragraph" -> Paragraph_count_max_streak(node, char, carry)
      [] node.kind = "heading" -> Heading_count_max_streak(node, char, carry)
      [] node.kind = "table" -> Table_count_max_streak(node, char, carry)
      [] node.kind = "link" -> Link_count_max_streak(node, char, carry)
      [] node.kind = "richtext" -> RichText_count_max_streak(node, char, carry)
      [] node.kind = "list" -> List_count_max_streak(node, char, carry)
      [] node.kind = "quote" -> Quote_count_max_streak(node, char, carry)

\* Markdown::write : element.write_to(&mut self.writer, false, Normal, None)?
Markdown_write(st, element) == write_to(element, st, FALSE, Normal, None)

(***************************************************************************)
(* Construction: Heading::new and the AsMarkdown conversions.  A           *)
(* conversion yields the new element, or Panicked when the code panics.    *)
(***************************************************************************)
NoElem == [kind |-> "none"]
Panicked == [kind |-> "panicked"]

\* Heading::new : assert!(level > 0 && level <= 6)
Heading_new(level) ==
    IF level > 0 /\ level <= 6 THEN Heading_value(level) ELSE Panicked

\* the types that implement AsMarkdown: &str/&String, RichText, Link, List
has_as_markdown(self) == self.kind \in {"str", "richtext", "link", "list"}

as_paragraph(self) == append(Paragraph_new, self)

as_heading(self, level) ==
    IF self.kind = "list" THEN Panicked
    ELSE LET h == Heading_new(level) IN
         IF h = Panicked THEN Panicked ELSE append(h, self)

as_link_to(self, address) ==
    IF self.kind \in {"link", "list"} THEN Panicked
    ELSE append(Link_new(address), self)

as_quote(self) == append(Quote_new, self)

\* bold / italic / code; by_ref: the receiver is &RichText and not RichText
as_styled(self, flag, by_ref) ==
    IF self.kind \in {"link", "list"} THEN Panicked
    ELSE IF self.kind = "str" THEN [RichText_new(self.text) EXCEPT ![flag] = TRUE]
    ELSE IF by_ref THEN self
    ELSE [self EXCEPT ![flag] = TRUE]

(***************************************************************************)
(* The client: it builds an element in elem (a second one may be put       *)
(* aside in held and appended later), and renders it once.                 *)
(*   md   : the sink behind the Markdown                                   *)
(*   ret  : the outcome of the last observed call (OK, an error, PANIC)    *)
(*   last : the last observed call and its arguments                       *)
(***************************************************************************)
NoCall == [op |-> "none", elem |-> NoElem, level |-> 0, by_ref |-> FALSE,
           inner |-> FALSE, escape |-> Normal, prefix |-> None,
           char |-> "", carry |-> 0, streak |-> <<0, 0>>]

\* the inputs the client draws from
Literals == { <<"a">>, <<"a", NL, "b">> }
Addresses == { <<"u">> }
Levels == 0..7
TreeLevels == {0, 2}
Alphabet == {"a", TICK, STAR, NL}
Texts == UNION {[1..n -> Alphabet] : n \in 0..MaxLen}
Prefixes == {None, Some(<<">">>)}
Failures == {None} \cup {Some(k) : k \in 0..MaxFail}
\* table inputs: up to MaxCols cells in a header or a row, up to MaxRows rows
Cells == { <<"x">>, <<"y", "z">> }
CellRows == UNION {[1..n -> Cells] : n \in 0..MaxCols}
Headers == CellRows
RowLists == UNION {[1..n -> CellRows] : n \in 0..MaxRows}

RECURSIVE Size(_)
RECURSIVE SizeAll(_, _)
SizeAll(nodes, i) == IF i > Len(nodes) THEN 0 ELSE Size(nodes[i]) + SizeAll(nodes, i + 1)

Size(node) ==
    CASE node.kind \in {"none", "panicked"} -> 0
      [] node.kind \in {"str", "richtext", "table"} -> 1
      [] node.kind \in {"paragraph", "heading", "link", "quote"} ->
            1 + SizeAll(node.children, 1)
      [] node.kind = "list" -> 1 + SizeAll(node.title, 1) + SizeAll(node.items, 1)

Running == ret # PANIC /\ last.op \notin {"write", "write_to"}
Room == Size(elem) + Size(held) < MaxNodes

Init ==
    /\ elem = NoElem
    /\ held = NoElem
    /\ md = new_sink(None, OK)
    /\ ret = OK
    /\ last = NoCall

\* a conversion or constructor returned value v
Built(v) ==
    /\ elem' = v
    /\ ret' = IF v = Panicked THEN PANIC ELSE OK
    /\ UNCHANGED <<held, md>>

NewStr ==
    \E t \in Literals :
        /\ Running /\ elem = NoElem /\ Room
        /\ Built(Str(t))
        /\ UNCHANGED last

ParagraphNew ==
    /\ Running /\ elem = NoElem /\ Room
    /\ Built(Paragraph_new)
    /\ UNCHANGED last

HeadingNewAt(levels) ==
    \E level \in levels :
        /\ Running /\ elem = NoElem /\ Room
        /\ Built(Heading_new(level))
        /\ last' = [NoCall EXCEPT !.op = "Heading::new", !.level = level]

LinkNew ==
    \E address \in Addresses :
        /\ Running /\ elem = NoElem /\ Room
        /\ Built(Link_new(address))
        /\ UNCHANGED last

ListNew ==
    \E numbered \in BOOLEAN :
        /\ Running /\ elem = NoElem /\ Room
        /\ Built(List_new(numbered))
        /\ UNCHANGED last

TableNew ==
    \E gfm \in BOOLEAN :
        /\ Running /\ elem = NoElem /\ Room
        /\ Built(Table_new(gfm))
        /\ UNCHANGED last

AsParagraph ==
    /\ Running /\ has_as_markdown(elem) /\ Room
    /\ Built(as_paragraph(elem))
    /\ UNCHANGED last

AsHeadingAt(levels) ==
    \E level \in levels :
        /\ Running /\ has_as_markdown(elem) /\ Room
        /\ Built(as_heading(elem, level))
        /\ last' = [NoCall EXCEPT !.op = "heading", !.level = level, !.elem = elem]

AsLinkTo ==
    \E address \in Addresses :
        /\ Running /\ has_as_markdown(elem) /\ Room
        /\ Built(as_link_to(elem, address))
        /\ last' = [NoCall EXCEPT !.op = "link_to", !.elem = elem]

HeadingNew == HeadingNewAt(Levels)

AsHeading == AsHeadingAt(Levels)

HeadingNewTree == HeadingNewAt(TreeLevels)

AsHeadingTree == AsHeadingAt(TreeLevels)

AsQuote ==
    /\ Running /\ has_as_markdown(elem) /\ Room
    /\ Built(as_quote(elem))
    /\ UNCHANGED last

AsStyled(flags) ==
    \E flag \in flags, by_ref \in BOOLEAN :
        /\ Running /\ has_as_markdown(elem)
        /\ by_ref => elem.kind = "richtext"
        /\ Built(as_styled(elem, flag, by_ref))
        /\ last' = [NoCall EXCEPT !.op = flag, !.elem = elem, !.by_ref = by_ref]

AsCode == AsStyled({"code"})

AsAnyStyle == AsStyled({"bold", "italic", "code"})

\* the client's two bindings change places: the element built so far is put
\* aside (to be appended to one built next), the one put aside is taken up
Swap ==
    /\ Running /\ elem # Panicked /\ elem # held
    /\ held' = elem
    /\ elem' = held
    /\ UNCHANGED <<md, ret, last>>

\* Paragraph::append, Heading::append, Link::append, Quote::append
AppendHeld ==
    /\ Running /\ elem.kind \in {"paragraph", "heading", "link", "quote"}
    /\ held # NoElem
    /\ elem' = append(elem, held)
    /\ held' = NoElem
    /\ last' = [NoCall EXCEPT !.op = "append", !.elem = elem]
    /\ UNCHANGED <<md, ret>>

\* List::title
ListTitle ==
    /\ Running /\ elem.kind = "list" /\ held # NoElem
    /\ elem' = [elem EXCEPT !.title = Append(@, held)]
    /\ held' = NoElem
    /\ UNCHANGED <<md, ret, last>>

\* List::item
ListItem ==
    /\ Running /\ elem.kind = "list" /\ held # NoElem
    /\ elem' = [elem EXCEPT !.items = Append(@, held)]
    /\ held' = NoElem
    /\ UNCHANGED <<md, ret, last>>

\* Table::header
TableHeader ==
    \E columns \in Headers :
        /\ Running /\ elem.kind = "table"
        /\ elem' = [elem EXCEPT !.columns = columns]
        /\ UNCHANGED <<held, md, ret, last>>

\* Table::rows
TableRows ==
    \E rows \in RowLists :
        /\ Running /\ elem.kind = "table"
        /\ elem' = [elem EXCEPT !.rows = rows]
        /\ UNCHANGED <<held, md, ret, last>>

\* Markdown::write(element) on a sink that fails as f says
Write ==
    \E f \in Failures, e \in IoErrors :
        /\ Running /\ elem \notin {NoElem, Panicked}
        /\ f = None => e = "BrokenPipe"
        /\ md' = Markdown_write(new_sink(f, e), elem)
        /\ ret' = md'.res
        /\ last' = [NoCall EXCEPT !.op = "write", !.elem = elem]
        /\ elem' = NoElem
        /\ UNCHANGED held

\* the same on a sink that never fails
WriteOk ==
    /\ Running /\ elem \notin {NoElem, Panicked}
    /\ md' = Markdown_write(new_sink(None, OK), elem)
    /\ ret' = md'.res
    /\ last' = [NoCall EXCEPT !.op = "write", !.elem = elem]
    /\ elem' = NoElem
    /\ UNCHANGED held

\* element.write_to(&mut sink, inner, escape, line_prefix), called directly
WriteTo ==
    \E inner \in BOOLEAN, escape \in {Normal, InlineCode}, line_prefix \in Prefixes :
        /\ Running /\ elem \notin {NoElem, Panicked}
        /\ md' = write_to(elem, new_sink(None, OK), inner, escape, line_prefix)
        /\ ret' = md'.res
        /\ last' = [NoCall EXCEPT !.op = "write_to", !.elem = elem, !.inner = inner,
                                  !.escape = escape, !.prefix = line_prefix]
        /\ elem' = NoElem
        /\ UNCHANGED held

Next ==
    \/ NewStr \/ ParagraphNew \/ HeadingNewTree \/ LinkNew \/ ListNew \/ TableNew
    \/ AsParagraph \/ AsHeadingTree \/ AsLinkTo \/ AsQuote \/ AsCode
    \/ Swap \/ AppendHeld \/ ListTitle \/ ListItem
    \/ Write

Spec == Init /\ [][Next]_vars

(***************************************************************************)
(* The text specification: one text of up to MaxLen bytes, styled and      *)
(* written, at the top level and through write_to in every context.        *)
(***************************************************************************)
InitText ==
    /\ elem \in {Str(t) : t \in Texts}
    /\ held = NoElem
    /\ md = new_sink(None, OK)
    /\ ret = OK
    /\ last = NoCall

NextText == AsAnyStyle \/ WriteOk \/ WriteTo

SpecText == InitText /\ [][NextText]_vars

(***************************************************************************)
(* Plain text and code spans (claims C1 to C3), under SpecText.            *)
(***************************************************************************)
RECURSIVE Flatten(_, _)
Flatten(pieces, i) ==
    IF i > Len(pieces) THEN <<>> ELSE pieces[i] \o Flatten(pieces, i + 1)

\* what one byte of a text becomes: a reserved byte gets one backslash before
\* it in Normal mode, a newline written through the line prefixer gets the
\* prefix after it, every other byte is itself
ByteImage(b, escape, line_prefix) ==
    IF escape = InlineCode THEN <<b>>
    ELSE IF b \in Range(Reserved) THEN <<BSLASH, b>>
    ELSE IF b = NL /\ is_some(line_prefix) THEN <<b>> \o unwrap(line_prefix)
    ELSE <<b>>

TextImage(t, escape, line_prefix) ==
    Flatten([i \in 1..Len(t) |-> ByteImage(t[i], escape, line_prefix)], 1)

\* the blank line that ends a top-level block
BlockEnd(line_prefix) == TextImage(<<NL, NL>>, Normal, line_prefix)

WroteStr == last.op \in {"write", "write_to"} /\ last.elem.kind = "str"

\* C1: the bytes written for a plain text t are, in Normal mode, t with one
\* backslash put before each reserved byte and every other byte unchanged and in
\* order (a line prefix, when the caller gave one, follows each newline); in
\* InlineCode mode they are exactly t, with no backslash, whatever t contains.
\* A top-level text is followed by the blank line ending the block.
C1_PlainTextEscaping ==
    WroteStr =>
        /\ ret = OK
        /\ md.out = TextImage(last.elem.text, last.escape, last.prefix)
                    \o (IF last.inner THEN <<>> ELSE BlockEnd(last.prefix))
        /\ (last.escape = InlineCode /\ last.inner) => md.out = last.elem.text
        /\ (last.escape = Normal /\ last.inner /\ last.prefix = None) =>
              /\ Len(md.out) = Len(last.elem.text)
                    + Cardinality({i \in 1..Len(last.elem.text) :
                                      last.elem.text[i] \in Range(Reserved)})
              /\ \A i \in 1..Len(md.out) :
                    md.out[i] = BSLASH =>
                        i < Len(md.out) /\ md.out[i + 1] \in Range(Reserved)

C1_Witness ==
    /\ last.op = "write_to" /\ last.inner /\ last.escape = Normal
    /\ last.prefix = None
    /\ last.elem = Str(<<"a", STAR, TICK>>)
    /\ md.out = <<"a", BSLASH, STAR, BSLASH, TICK>>

\* the longest contiguous run of byte b in t
LongestRun(t, b) ==
    CHOOSE n \in 0..Len(t) :
        /\ \E i \in 1..(Len(t) - n + 1) : \A j \in i..(i + n - 1) : t[j] = b
        /\ \A m \in (n + 1)..Len(t) :
              ~ \E i \in 1..(Len(t) - m + 1) : \A j \in i..(i + m - 1) : t[j] = b

\* the length of the run of b in s that starts at index k
RunFrom(s, k, b) ==
    CHOOSE n \in 0..(Len(s) - k + 1) :
        /\ \A j \in k..(k + n - 1) : s[j] = b
        /\ (k + n > Len(s) \/ s[k + n] # b)

\* the length of the run of b in s that ends at index k
RunUpTo(s, k, b) ==
    CHOOSE n \in 0..k :
        /\ \A j \in (k - n + 1)..k : s[j] = b
        /\ (k - n < 1 \/ s[k - n] # b)

\* the bold and italic marks that come before the fence
StarsOf(rt) == (IF rt.bold THEN 2 ELSE 0) + (IF rt.italic THEN 1 ELSE 0)

WroteCode ==
    /\ last.op \in {"write", "write_to"}
    /\ last.elem.kind = "richtext" /\ last.elem.code

\* the fences found in the bytes written for a code span
OpeningFence == RunFrom(md.out, StarsOf(last.elem) + 1, TICK)
ClosingFence ==
    RunUpTo(md.out,
            Len(md.out) - StarsOf(last.elem)
               - (IF last.inner THEN 0 ELSE Len(BlockEnd(last.prefix))),
            TICK)

\* C2: the opening fence and the closing fence of a code span are strictly
\* longer than the longest run of backticks anywhere in its text.
C2_FenceExceedsLongestRun ==
    WroteCode =>
        /\ OpeningFence > LongestRun(last.elem.text, TICK)
        /\ ClosingFence > LongestRun(last.elem.text, TICK)
        /\ OpeningFence = ClosingFence

C2_Witness ==
    /\ WroteCode /\ last.op = "write"
    /\ last.elem.text = <<TICK, TICK, "a", TICK>>
    /\ OpeningFence = 4

\* C3: the fence of a code span is exactly (longest run of backticks in the
\* text) + 1, also when a run touches the end of the text.
C3_FenceIsLongestRunPlusOne ==
    WroteCode => OpeningFence = LongestRun(last.elem.text, TICK) + 1

(***************************************************************************)
(* The heading specification: headings of every level from 0 to 7, made    *)
(* by Heading::new and by heading(level), filled and written (claim C4).   *)
(***************************************************************************)
NextHeading ==
    \/ NewStr \/ LinkNew \/ ListNew \/ HeadingNew
    \/ AsHeading \/ AsCode \/ AsLinkTo
    \/ Swap \/ AppendHeld \/ ListItem
    \/ WriteOk

SpecHeading == Init /\ [][NextHeading]_vars

(***************************************************************************)
(* Headings, nesting, quotes and lists (claims C4 to C8).                  *)
(***************************************************************************)
\* what a node writes as an inline child, on a sink that never fails
Inline(node, escape, line_prefix) ==
    write_to(node, new_sink(None, OK), TRUE, escape, line_prefix).out

InlineAll(nodes, escape, line_prefix) ==
    Flatten([i \in 1..Len(nodes) |-> Inline(nodes[i], escape, line_prefix)], 1)

\* the nodes directly under a node
ChildrenOf(node) ==
    CASE node.kind \in {"paragraph", "heading", "link", "quote"} -> node.children
      [] node.kind = "list" -> node.title \o node.items
      [] OTHER -> <<>>

RECURSIVE Contains(_, _)
\* some node strictly below node is of the given kind
Contains(node, kind) ==
    \E i \in 1..Len(ChildrenOf(node)) :
        \/ ChildrenOf(node)[i].kind = kind
        \/ Contains(ChildrenOf(node)[i], kind)

RECURSIVE LinkInLink(_)
\* some Link of the tree has a Link below it
LinkInLink(node) ==
    \/ node.kind = "link" /\ Contains(node, "link")
    \/ \E i \in 1..Len(ChildrenOf(node)) : LinkInLink(ChildrenOf(node)[i])

Wrote(kind) == last.op = "write" /\ last.elem.kind = kind

\* C4: Heading::new(level) fails fatally for every level outside 1..6 (0 and 7
\* among them) and succeeds for every level in 1..6; a top-level Heading of
\* level n writes exactly n '#' bytes and one space, then its children inline,
\* then a single newline.
C4_HeadingLevels ==
    /\ last.op \in {"Heading::new", "heading"} =>
          (ret = PANIC) = (last.level \notin 1..6 \/ last.elem.kind = "list")
    /\ (last.op = "Heading::new" /\ elem.kind = "heading" /\ held = NoElem) =>
          elem.level = last.level /\ elem.children = <<>>
    /\ (last.op = "heading" /\ elem.kind = "heading" /\ held = NoElem) =>
          elem.level = last.level /\ elem.children = <<last.elem>>
    /\ (Wrote("heading") /\ ret = OK) =>
          /\ last.elem.level \in 1..6
          /\ md.out = [i \in 1..last.elem.level |-> "#"] \o <<SPACE>>
                      \o InlineAll(last.elem.children, Normal, None) \o <<NL>>

C4_Witness ==
    /\ Wrote("heading") /\ ret = OK
    /\ last.elem.level = 6
    /\ last.elem.children = <<Str(<<"a">>)>>
    /\ md.out = <<"#", "#", "#", "#", "#", "#", SPACE, "a", NL>>

\* C5: a Heading used as a child of another element is rejected before any
\* render, so a render of a tree that holds a nested Heading writes no byte to
\* the sink.
C5_NestedHeadingWritesNothing ==
    (last.op = "write" /\ Contains(last.elem, "heading")) => md.out = <<>>

\* C6: no Link ends up below another Link: no successful render is one of a
\* tree in which a Link has a Link in its text.
C6_NoLinkInsideLink ==
    (last.op = "write" /\ ret = OK) => ~LinkInLink(last.elem)

\* C7: every newline written for the children of a rendered Quote is followed
\* at once by the Quote's line prefix '>' (a top-level Quote writes a newline
\* and '>' before its children and a blank line after them).
C7_QuotePrefixesEveryLine ==
    (Wrote("quote") /\ ret = OK) =>
        \A i \in 3..(Len(md.out) - 2) :
            md.out[i] = NL => md.out[i + 1] = ">"

\* what a List writes under the line prefix of its caller: the title nodes,
\* then for each item a newline, the caller's prefix, three spaces, the static
\* marker, and the item written under the prefix so extended
ListImage(list, line_prefix) ==
    LET indent == (IF is_some(line_prefix) THEN unwrap(line_prefix) ELSE <<>>)
                      \o <<SPACE, SPACE, SPACE>>
        marker == IF list.numbered THEN <<"1", ".", SPACE>> ELSE <<STAR, SPACE>> IN
    InlineAll(list.title, Normal, line_prefix)
    \o Flatten([i \in 1..Len(list.items) |->
                   <<NL>> \o indent \o marker
                   \o Inline(list.items[i], Normal, Some(indent))], 1)

\* C8: a List of n items writes its title nodes and then n markers in item
\* order, each "1. " (numbered) or "* " (bulleted), each right after a newline
\* and the caller's line prefix plus three spaces; each item is written under
\* that extended prefix.  Checked for a top-level List and for a List that is
\* the only child of a Quote (caller's prefix '>').
C8_ListMarkers ==
    /\ (Wrote("list") /\ ret = OK) => md.out = ListImage(last.elem, None)
    /\ (Wrote("quote") /\ ret = OK /\ Len(last.elem.children) = 1
          /\ last.elem.children[1].kind = "list") =>
          md.out = <<NL, ">">> \o ListImage(last.elem.children[1], Some(<<">">>))
                   \o <<NL, NL>>

C8_Witness ==
    /\ Wrote("list") /\ ret = OK
    /\ last.elem.numbered
    /\ last.elem.items = <<Str(<<"a">>), Str(<<"a", NL, "b">>)>>
    /\ md.out = <<NL, SPACE, SPACE, SPACE, "1", ".", SPACE, "a",
                  NL, SPACE, SPACE, SPACE, "1", ".", SPACE,
                  "a", NL, SPACE, SPACE, SPACE, "b">>

(***************************************************************************)
(* Sink failures (claim C10), under Spec.                                  *)
(***************************************************************************)
IsPrefix(s, t) == Len(s) <= Len(t) /\ SubSeq(t, 1, Len(s)) = s

\* C10: when a write to the sink fails during Markdown::write, the render
\* stops there: the caller gets the very error the sink raised, the sink has
\* taken exactly the writes before the failing one, and no write is attempted
\* after it.
C10_AbortOnFirstFailure ==
    last.op = "write" =>
        /\ md.late = 0
        /\ ret \in IoErrors <=> md.raised # OK
        /\ md.raised # OK =>
              /\ ret = md.raised /\ ret = md.failWith
              /\ md.calls = unwrap(md.failAt)
              /\ IsPrefix(md.out, Markdown_write(new_sink(None, OK), last.elem).out)

C10_Witness ==
    /\ Wrote("quote") /\ ret = "WriteZero"
    /\ md.raised = "WriteZero" /\ md.calls = 3 /\ md.late = 0
    /\ Contains(last.elem, "richtext")

(***************************************************************************)
(* The table specification: a table gets a header and rows, and is         *)
(* written (claim C9).                                                     *)
(***************************************************************************)
InitTable ==
    /\ elem \in {Table_new(gfm) : gfm \in BOOLEAN}
    /\ held = NoElem
    /\ md = new_sink(None, OK)
    /\ ret = OK
    /\ last = NoCall

NextTable == TableHeader \/ TableRows \/ WriteOk

SpecTable == InitTable /\ [][NextTable]_vars

\* the HTML of a table: one <th> per column, one <tr> of <td> per row
TableImage(table) ==
    TABLE_OPEN \o THEAD_OPEN \o TR_OPEN
    \o Flatten([k \in 1..Len(table.columns) |->
                   TH_OPEN \o table.columns[k] \o TH_CLOSE], 1)
    \o TR_CLOSE \o THEAD_CLOSE \o TBODY_OPEN
    \o Flatten([i \in 1..Len(table.rows) |->
                   TR_OPEN
                   \o Flatten([r \in 1..Len(table.rows[i]) |->
                                  TD_OPEN \o table.rows[i][r] \o TD_CLOSE], 1)
                   \o TR_CLOSE], 1)
    \o TBODY_CLOSE \o TABLE_CLOSE

\* C9: a GFM table with at least one column whose rows each have at least one
\* cell is written as <table><thead><tr>, one <th>c</th> per column,
\* </tr></thead><tbody>, then per row <tr>, one <td>v</td> per cell, </tr>, then
\* </tbody></table> and a newline: every <tr> that is opened is closed, also in
\* a row of a single cell.
C9_TableHtml ==
    (Wrote("table") /\ last.elem.gfm /\ Len(last.elem.columns) >= 1
       /\ \A i \in 1..Len(last.elem.rows) : Len(last.elem.rows[i]) >= 1) =>
        md.out = TableImage(last.elem) \o <<NL>>

(***************************************************************************)
(* The streak specification: a Paragraph of plain texts is filled, and     *)
(* count_max_streak is called on it (claim C11).                           *)
(***************************************************************************)
StreakTexts == UNION {[1..n -> {"a", TICK}] : n \in 0..MaxPiece}

InitStreak ==
    /\ elem = Paragraph_new
    /\ held = NoElem
    /\ md = new_sink(None, OK)
    /\ ret = OK
    /\ last = NoCall

\* Paragraph::append(text)
AppendStr ==
    \E t \in StreakTexts :
        /\ Running /\ elem.kind = "paragraph"
        /\ Len(elem.children) < MaxChildren
        /\ elem' = append(elem, Str(t))
        /\ UNCHANGED <<held, md, ret, last>>

\* element.count_max_streak(char, carry), called directly
CountMaxStreak ==
    \E char \in {TICK}, carry \in 0..MaxCarry :
        /\ Running /\ elem \notin {NoElem, Panicked}
        /\ last' = [NoCall EXCEPT !.op = "count_max_streak", !.elem = elem,
                                  !.char = char, !.carry = carry,
                                  !.streak = count_max_streak(elem, char, carry)]
        /\ UNCHANGED <<elem, held, md, ret>>

NextStreak == AppendStr \/ CountMaxStreak

SpecStreak == InitStreak /\ [][NextStreak]_vars

\* the texts of the children of a node, one after the other
ChildTexts(node) ==
    Flatten([i \in 1..Len(node.children) |-> node.children[i].text], 1)

\* C11: count_max_streak(c, carry) on a Paragraph of plain texts t1..tn reports
\* as its max the length of the longest run of c in carry copies of c followed
\* by t1..tn (folding the children left to right, the trailing run of one being
\* the carry of the next), never the sum of the children's separate maxima.
C11_ParagraphStreakIsLongestRun ==
    (last.op = "count_max_streak" /\ last.elem.kind = "paragraph"
       /\ \A i \in 1..Len(last.elem.children) : last.elem.children[i].kind = "str") =>
        last.streak[1] = LongestRun([i \in 1..last.carry |-> last.char]
                                       \o ChildTexts(last.elem), last.char)

(***************************************************************************)
(* The line prefixer (claim C12), under SpecPrefix: write_line_prefixed    *)
(* called on every text of up to MaxLen bytes, without a prefix and with   *)
(* prefixes of one and of two bytes.                                       *)
(***************************************************************************)
LinePrefixes == {None, Some(<<">">>), Some(<<">", SPACE>>)}

\* write_line_prefixed(writer, data, line_prefix) on a fresh sink
LinePrefixed ==
    \E line_prefix \in LinePrefixes :
        /\ Running /\ elem.kind = "str"
        /\ md' = write_line_prefixed(new_sink(None, OK), elem.text, line_prefix)
        /\ ret' = md'.res
        /\ last' = [NoCall EXCEPT !.op = "write_line_prefixed", !.elem = elem,
                                  !.prefix = line_prefix]
        /\ UNCHANGED <<elem, held>>

NextPrefix == LinePrefixed

SpecPrefix == InitText /\ [][NextPrefix]_vars

\* the number of newlines among the first k bytes of t
NewlinesUpTo(t, k) == Cardinality({i \in 1..k : t[i] = NL})

\* C12: write_line_prefixed writes the data unchanged when there is no prefix;
\* with a prefix p the output has one copy of p for each newline of the data:
\* byte i of the data lands after the copies for the newlines before it, the
\* copy for a newline at i follows it at once (also when it is the last byte),
\* so the bytes up to and including the first newline are where they were and
\* nothing else is written.
C12_PrefixAfterEveryNewline ==
    last.op = "write_line_prefixed" =>
        LET t == last.elem.text
            out == md.out
        IN  /\ ret = OK
            /\ ~is_some(last.prefix) => out = t
            /\ is_some(last.prefix) =>
                 LET p == unwrap(last.prefix)
                     at(i) == i + Len(p) * NewlinesUpTo(t, i - 1)
                 IN  /\ Len(out) = Len(t) + Len(p) * NewlinesUpTo(t, Len(t))
                     /\ \A i \in 1..Len(t) : out[at(i)] = t[i]
                     /\ \A i \in 1..Len(t) : t[i] = NL =>
                            SubSeq(out, at(i) + 1, at(i) + Len(p)) = p
                     /\ \A i \in 1..Len(t) :
                            (\A j \in 1..(i - 1) : t[j] # NL) => out[i] = t[i]

\* a text with two newlines, the second its last byte, written with a prefix
C12_Witness ==
    /\ last.op = "write_line_prefixed" /\ ret = OK
    /\ last.prefix = Some(<<">", SPACE>>)
    /\ last.elem.text = <<"a", NL, "a", NL>>
    /\ md.out = <<"a", NL, ">", SPACE, "a", NL, ">", SPACE>>

(***************************************************************************)
(* Style flags (claim C13), under SpecText: bold(), italic() and code()    *)
(* on a text and on a RichText taken by value or by reference.             *)
(***************************************************************************)
StyleFlags == {"bold", "italic", "code"}

\* C13: bold(), italic() and code() are cumulative: the RichText a call returns
\* has the text of its receiver, the flag of the call set and every flag the
\* receiver already had, whether the receiver is passed by value or by
\* reference.
C13_StyleFlagsAccumulate ==
    (last.op \in StyleFlags /\ ret = OK /\ last.elem.kind \in {"str", "richtext"}) =>
        /\ elem.kind = "richtext"
        /\ elem.text = last.elem.text
        /\ elem[last.op]
        /\ last.elem.kind = "richtext" =>
               \A f \in StyleFlags : last.elem[f] => elem[f]

(***************************************************************************)
(* A document written piece by piece (claim C14), under SpecDoc: the       *)
(* client builds elements as under Spec and writes each to the same        *)
(* Markdown, whose sink never fails; the documents are those of up to      *)
(* MaxDoc bytes.                                                           *)
(***************************************************************************)
\* md.write(element) on the document written so far
WriteNext ==
    /\ Running /\ elem \notin {NoElem, Panicked}
    /\ md' = Markdown_write(md, elem)
    /\ Len(md'.out) <= MaxDoc
    /\ ret' = md'.res
    /\ last' = [NoCall EXCEPT !.op = "write_next"]
    /\ elem' = NoElem
    /\ UNCHANGED held

NextDoc ==
    \/ NewStr \/ ListNew \/ TableNew
    \/ AsParagraph \/ AsHeadingTree \/ AsLinkTo \/ AsQuote \/ AsCode
    \/ Swap \/ ListItem
    \/ WriteNext

SpecDoc == Init /\ [][NextDoc]_vars

\* C14: after any sequence of successful Markdown::write calls on top-level
\* elements the document is empty or ends with a newline, so the next element
\* starts on a line of its own.
C14_DocumentEndsWithNewline ==
    md.res = OK => (md.out = <<>> \/ md.out[Len(md.out)] = NL)

=============================================================================
